---- MODULE Spec2Model ----
(***************************************************************************)
(* Model of src/engine/tw-frame-loop.js: the FrameLoop step scheduler and  *)
(* the animationFrameWrapper display-sync helper, together with the part   *)
(* of the host (interval timers, animation-frame requests) they drive, and *)
(* the session guard of the jgVr adapter defined in the same file.         *)
(*                                                                         *)
(* Every function of the source is an operator from a state record to the  *)
(* state record it leaves; an action applies one whole handler.            *)
(***************************************************************************)
EXTENDS Naturals, Sequences, FiniteSets

VARIABLES
    running,                 \* this.running
    framerate,               \* this.framerate
    interpolation,           \* this.interpolation
    currentStepTime,         \* this.runtime.currentStepTime, a number <<n, d>>
    stepCallback,            \* this.stepCallback
    interpolationCallback,   \* this.interpolationCallback
    _stepInterval,           \* this._stepInterval: a timer id or Null
    _interpolationAnimation, \* this._interpolationAnimation: a wrapper or Null
    _stepAnimation,          \* this._stepAnimation: a wrapper or Null
    timers,                  \* host: the active setInterval timers
    frameRequests,           \* host: the pending animation-frame requests
    wrappers,                \* the closures made by animationFrameWrapper
    nextId,                  \* host: the next timer / frame-request id
    log,                     \* history: sources created and cancelled, in order
    lastOp,                  \* history: the handler that ran last
    lastCall,                \* history: the callback that handler invoked, if any
    open,                    \* jgVr: this.open
    session,                 \* jgVr: this.session, a session id or Null
    awaitingCompatible,      \* _createImmersive calls at await gl.makeXRCompatible()
    awaitingSession,         \* _createImmersive calls at await requestSession()
    xrSessions,              \* host: the sessions granted and not yet ended
    xrEnding,                \* host: of these, the ones end() was called on
    nextSession,             \* host: the id of the next session granted
    vrOp                     \* history: the jgVr handler that ran last

vars == <<running, framerate, interpolation, currentStepTime, stepCallback,
          interpolationCallback, _stepInterval, _interpolationAnimation,
          _stepAnimation, timers, frameRequests, wrappers, nextId, log,
          lastOp, lastCall, open, session, awaitingCompatible,
          awaitingSession, xrSessions, xrEnding, nextSession, vrOp>>

\* The state of the jgVr adapter and of the XR host.
vrVars == <<open, session, awaitingCompatible, awaitingSession, xrSessions,
            xrEnding, nextSession, vrOp>>

\* The state of the FrameLoop and of the timer / frame-request host.
loopVars == <<running, framerate, interpolation, currentStepTime, stepCallback,
              interpolationCallback, _stepInterval, _interpolationAnimation,
              _stepAnimation, timers, frameRequests, wrappers, nextId, log,
              lastOp, lastCall>>

----------------------------------------------------------------------------
(* Bounds *)

\* Ids the host hands out before the model stops allocating.
MaxId == 6

\* XR sessions the host grants before the model stops granting.
MaxSessions == 2

\* _createImmersive calls that may be suspended at an await at one time.
MaxInFlight == 2

\* Rates offered to setFramerate: 0, 60 and the multiples of 30 up to here.
MaxRateSteps == 2

Rates == {0, 60} \cup {30 * k : k \in 1..MaxRateSteps}

----------------------------------------------------------------------------
(* Values *)

\* null / undefined: ids start at 1 and wrappers are numbered from 1.
Null == 0

RECURSIVE GCD(_, _)
GCD(a, b) == IF b = 0 THEN a ELSE GCD(b, a % b)

\* JavaScript's a / b on non-negative numbers, as the fraction in lowest
\* terms <<n, d>>; d = 0 is Infinity (x / 0 with x > 0), <<0, 0>> is NaN.
Div(a, b) ==
    LET g == GCD(a, b) IN
    IF g = 0 THEN <<0, 0>> ELSE <<a \div g, b \div g>>

IsPositiveFinite(x) == x[1] > 0 /\ x[2] > 0

\* The state as one record, so that the source's functions compose.
Cur ==
    [running |-> running, framerate |-> framerate,
     interpolation |-> interpolation, currentStepTime |-> currentStepTime,
     stepCallback |-> stepCallback,
     interpolationCallback |-> interpolationCallback,
     _stepInterval |-> _stepInterval,
     _interpolationAnimation |-> _interpolationAnimation,
     _stepAnimation |-> _stepAnimation,
     timers |-> timers, frameRequests |-> frameRequests,
     wrappers |-> wrappers, nextId |-> nextId, log |-> log,
     lastOp |-> lastOp, lastCall |-> lastCall]

Become(s) ==
    /\ running' = s.running
    /\ framerate' = s.framerate
    /\ interpolation' = s.interpolation
    /\ currentStepTime' = s.currentStepTime
    /\ stepCallback' = s.stepCallback
    /\ interpolationCallback' = s.interpolationCallback
    /\ _stepInterval' = s._stepInterval
    /\ _interpolationAnimation' = s._interpolationAnimation
    /\ _stepAnimation' = s._stepAnimation
    /\ timers' = s.timers
    /\ frameRequests' = s.frameRequests
    /\ wrappers' = s.wrappers
    /\ nextId' = s.nextId
    /\ log' = s.log
    /\ lastOp' = s.lastOp
    /\ lastCall' = s.lastCall
    /\ UNCHANGED vrVars

Is(s) ==
    /\ running = s.running
    /\ framerate = s.framerate
    /\ interpolation = s.interpolation
    /\ currentStepTime = s.currentStepTime
    /\ stepCallback = s.stepCallback
    /\ interpolationCallback = s.interpolationCallback
    /\ _stepInterval = s._stepInterval
    /\ _interpolationAnimation = s._interpolationAnimation
    /\ _stepAnimation = s._stepAnimation
    /\ timers = s.timers
    /\ frameRequests = s.frameRequests
    /\ wrappers = s.wrappers
    /\ nextId = s.nextId
    /\ log = s.log
    /\ lastOp = s.lastOp
    /\ lastCall = s.lastCall

Event(ev, kind, cb, ref) == [ev |-> ev, kind |-> kind, callback |-> cb, ref |-> ref]

----------------------------------------------------------------------------
(* Host: interval timers *)

\* setInterval(cb, delay): a new active timer; its id is s.nextId.
setInterval(s, cb, delay) ==
    [s EXCEPT !.timers = @ \cup {[id |-> s.nextId, callback |-> cb, delay |-> delay]},
              !.nextId = @ + 1,
              !.log = Append(@, Event("create", "timer", cb, s.nextId))]

\* clearInterval(id): removes the active timer with that id, if there is one.
clearInterval(s, id) ==
    LET hit == {t \in s.timers : t.id = id} IN
    IF hit = {} THEN s
    ELSE LET t == CHOOSE x \in hit : TRUE IN
         [s EXCEPT !.timers = @ \ hit,
                   !.log = Append(@, Event("cancel", "timer", t.callback, id))]

----------------------------------------------------------------------------
(* Host: animation frames, and animationFrameWrapper *)

\* _requestAnimationFrame(handle) for the handle of wrapper w; id is s.nextId.
_requestAnimationFrame(s, w) ==
    [s EXCEPT !.frameRequests = @ \cup {[id |-> s.nextId, wrapper |-> w]},
              !.nextId = @ + 1]

\* _cancelAnimationFrame(id): drops the pending request with that id, if any.
_cancelAnimationFrame(s, id) ==
    [s EXCEPT !.frameRequests = {r \in @ : r.id # id}]

\* animationFrameWrapper(callback): a closure with its own id, which requests
\* its first frame; the wrapper returned is Len(result.wrappers).
animationFrameWrapper(s, cb) ==
    LET w  == Len(s.wrappers) + 1
        s1 == [s EXCEPT !.wrappers = Append(@, [callback |-> cb, id |-> Null])]
        s2 == _requestAnimationFrame(s1, w)
    IN  [s2 EXCEPT !.wrappers[w].id = s1.nextId,
                   !.log = Append(@, Event("create", "raf", cb, w))]

\* Mutant: a cancel that reads an id shared by all wrappers, which holds the
\* id the newest wrapper stored.
cancel_with_shared_id(s, w) ==
    LET s1 == _cancelAnimationFrame(s, s.wrappers[Len(s.wrappers)].id) IN
    [s1 EXCEPT !.log = Append(@, Event(IF s1.frameRequests = s.frameRequests
                                        THEN "cancel-noop" ELSE "cancel",
                                        "raf", s.wrappers[w].callback, w))]

\* cancel() of wrapper w: _cancelAnimationFrame(id) with the closure's id.
\* The log tells a call that found the request pending ("cancel") from one
\* that found nothing to cancel ("cancel-noop").
cancel(s, w) ==
    LET s1 == _cancelAnimationFrame(s, s.wrappers[w].id) IN
    [s1 EXCEPT !.log = Append(@, Event(IF s1.frameRequests = s.frameRequests
                                        THEN "cancel-noop" ELSE "cancel",
                                        "raf", s.wrappers[w].callback, w))]

----------------------------------------------------------------------------
(* FrameLoop *)

\* Mutant: a stop that flips the running flag instead of clearing it.
stop_toggles_running(s) ==
    LET s1 == [s EXCEPT !.running = ~s.running]
        s2 == clearInterval(s1, s1._stepInterval)
        s3 == IF s2._interpolationAnimation # Null
              THEN cancel(s2, s2._interpolationAnimation) ELSE s2
        s4 == IF s3._stepAnimation # Null
              THEN cancel(s3, s3._stepAnimation) ELSE s3
    IN  [s4 EXCEPT !._interpolationAnimation = Null, !._stepAnimation = Null]

stop(s) ==
    LET s1 == [s EXCEPT !.running = FALSE]
        s2 == clearInterval(s1, s1._stepInterval)
        s3 == IF s2._interpolationAnimation # Null
              THEN cancel(s2, s2._interpolationAnimation) ELSE s2
        s4 == IF s3._stepAnimation # Null
              THEN cancel(s3, s3._stepAnimation) ELSE s3
    IN  [s4 EXCEPT !._interpolationAnimation = Null, !._stepAnimation = Null]

\* Mutant: a start that takes the timer branch at every rate, 0 included.
start_without_zero_branch(s) ==
    LET s1 == [s EXCEPT !.running = TRUE]
        s2 == IF s1.interpolation
              THEN LET a == animationFrameWrapper(s1, s1.interpolationCallback)
                   IN  [a EXCEPT !._interpolationAnimation = Len(a.wrappers)]
              ELSE s1
        s3 == setInterval(s2, s2.stepCallback, Div(1000, s2.framerate))
    IN  [s3 EXCEPT !._stepInterval = s2.nextId]

\* Mutant: a start that hands the interpolation callback to the display-sync
\* step loop.
start_with_wrong_callback(s) ==
    LET s1 == [s EXCEPT !.running = TRUE] IN
    IF s1.framerate = 0
    THEN LET s2 == animationFrameWrapper(s1, s1.interpolationCallback) IN
         [s2 EXCEPT !._stepAnimation = Len(s2.wrappers)]
    ELSE LET s2 == IF s1.interpolation
                   THEN LET a == animationFrameWrapper(s1, s1.interpolationCallback)
                        IN  [a EXCEPT !._interpolationAnimation = Len(a.wrappers)]
                   ELSE s1
             s3 == setInterval(s2, s2.stepCallback, Div(1000, s2.framerate))
         IN  [s3 EXCEPT !._stepInterval = s2.nextId]

\* Mutant: a start that returns at once when the loop is already running.
start_when_stopped(s) ==
    IF s.running THEN s
    ELSE LET s1 == [s EXCEPT !.running = TRUE] IN
         IF s1.framerate = 0
         THEN LET s2 == animationFrameWrapper(s1, s1.stepCallback) IN
              [s2 EXCEPT !._stepAnimation = Len(s2.wrappers)]
         ELSE LET s2 == IF s1.interpolation
                        THEN LET a == animationFrameWrapper(s1, s1.interpolationCallback)
                             IN  [a EXCEPT !._interpolationAnimation = Len(a.wrappers)]
                        ELSE s1
                  s3 == setInterval(s2, s2.stepCallback, Div(1000, s2.framerate))
              IN  [s3 EXCEPT !._stepInterval = s2.nextId]

start(s) ==
    LET s1 == [s EXCEPT !.running = TRUE] IN
    IF s1.framerate = 0
    THEN LET s2 == animationFrameWrapper(s1, s1.stepCallback) IN
         [s2 EXCEPT !._stepAnimation = Len(s2.wrappers)]
    ELSE LET s2 == IF s1.interpolation
                   THEN LET a == animationFrameWrapper(s1, s1.interpolationCallback)
                        IN  [a EXCEPT !._interpolationAnimation = Len(a.wrappers)]
                   ELSE s1
             s3 == setInterval(s2, s2.stepCallback, Div(1000, s2.framerate))
         IN  [s3 EXCEPT !._stepInterval = s2.nextId]

\* Mutant: a restart that does not look at the running flag.
_restart_unguarded(s) == start(stop(s))

\* Mutant: a restart that starts again without stopping first.
_restart_without_stop(s) == IF s.running THEN start(s) ELSE s

_restart(s) == IF s.running THEN start(stop(s)) ELSE s

\* Mutant: a setFramerate without the special case for 0.
setFramerate_without_fallback(s, fps) ==
    LET s1 == [s EXCEPT !.framerate = fps]
    IN  _restart([s1 EXCEPT !.currentStepTime = Div(1000, s1.framerate)])

\* Mutant: a setFramerate that switches interpolation off at rate 0.
setFramerate_clears_interpolation(s, fps) ==
    LET s1 == [s EXCEPT !.framerate = fps]
        s2 == IF fps = 0
              THEN [s1 EXCEPT !.currentStepTime = Div(1000, 60),
                              !.interpolation = FALSE]
              ELSE [s1 EXCEPT !.currentStepTime = Div(1000, s1.framerate)]
    IN  _restart(s2)

setFramerate(s, fps) ==
    LET s1 == [s EXCEPT !.framerate = fps]
        s2 == IF fps = 0
              THEN [s1 EXCEPT !.currentStepTime = Div(1000, 60)]
              ELSE [s1 EXCEPT !.currentStepTime = Div(1000, s1.framerate)]
    IN  _restart(s2)

setInterpolation(s, flag) ==
    _restart([s EXCEPT !.interpolation = flag])

Op(name, arg) == [name |-> name, arg |-> arg]

----------------------------------------------------------------------------
(* Callbacks *)

\* What an invocation of stepCallback or interpolationCallback does to the
\* scheduler: it returns, it throws, or it calls stop(), setFramerate(fps)
\* or setInterpolation(flag) on the FrameLoop before it returns.
Return == Op("return", 0)

Throw == Op("throw", 0)

Reentrant ==
    {Op("stop", 0)}
        \cup {Op("setFramerate", fps) : fps \in Rates}
        \cup {Op("setInterpolation", b) : b \in {0, 1}}

\* callback(), with c what the callback does.
callback(s, c) ==
    CASE c.name = "stop" -> stop(s)
      [] c.name = "setFramerate" -> setFramerate(s, c.arg)
      [] c.name = "setInterpolation" -> setInterpolation(s, c.arg = 1)
      [] OTHER -> s

Invoked(s, w) == [s EXCEPT !.lastCall = [callback |-> s.wrappers[w].callback,
                                         kind |-> "raf", ref |-> w]]

\* Mutant: a handle that calls the callback before it requests the next
\* frame; a callback that throws ends the handle there.
handle_callback_first(s, w, c) ==
    LET s1 == callback(Invoked(s, w), c) IN
    IF c.name = "throw" THEN s1
    ELSE LET s2 == _requestAnimationFrame(s1, w)
         IN  [s2 EXCEPT !.wrappers[w].id = s1.nextId]

\* Mutant: a handle that requests the next frame and drops the id.
handle_forgets_id(s, w, c) ==
    callback(Invoked(_requestAnimationFrame(s, w), w), c)

\* Mutant: a handle that calls the callback and requests no further frame.
handle_without_request(s, w, c) ==
    callback(Invoked(s, w), c)

\* handle() of wrapper w, run by the host for a request it has just taken off
\* its list: requests the next frame, stores its id, then calls the callback.
handle(s, w, c) ==
    LET s1 == _requestAnimationFrame(s, w)
        s2 == [s1 EXCEPT !.wrappers[w].id = s.nextId]
    IN  callback(Invoked(s2, w), c)

NoCall == [callback |-> "", kind |-> "", ref |-> Null]

\* A call of the public interface: no callback runs inside it.
Called(s, name, arg) == [s EXCEPT !.lastOp = Op(name, arg), !.lastCall = NoCall]

\* new FrameLoop(runtime), on a host that has no timer and no frame request.
constructor ==
    LET s0 == [running |-> FALSE, framerate |-> Null, interpolation |-> FALSE,
               currentStepTime |-> <<0, 0>>,
               stepCallback |-> "_step",
               interpolationCallback |-> "_renderInterpolatedPositions",
               _stepInterval |-> Null, _interpolationAnimation |-> Null,
               _stepAnimation |-> Null,
               timers |-> {}, frameRequests |-> {}, wrappers |-> << >>,
               nextId |-> 1, log |-> << >>,
               lastOp |-> Op("constructor", 0),
               lastCall |-> NoCall]
        s1 == setFramerate(s0, 60)
        s2 == setInterpolation(s1, FALSE)
    IN  [s2 EXCEPT !._stepInterval = Null, !._interpolationAnimation = Null,
                   !._stepAnimation = Null]

----------------------------------------------------------------------------
(* jgVr: the immersive-session adapter and the XR host it calls *)

\* The adapter and the XR host as one record.
CurVr ==
    [open |-> open, session |-> session,
     awaitingCompatible |-> awaitingCompatible,
     awaitingSession |-> awaitingSession,
     xrSessions |-> xrSessions, xrEnding |-> xrEnding,
     nextSession |-> nextSession, vrOp |-> vrOp]

BecomeVr(v) ==
    /\ open' = v.open
    /\ session' = v.session
    /\ awaitingCompatible' = v.awaitingCompatible
    /\ awaitingSession' = v.awaitingSession
    /\ xrSessions' = v.xrSessions
    /\ xrEnding' = v.xrEnding
    /\ nextSession' = v.nextSession
    /\ vrOp' = v.vrOp
    /\ UNCHANGED loopVars

IsVr(v) ==
    /\ open = v.open
    /\ session = v.session
    /\ awaitingCompatible = v.awaitingCompatible
    /\ awaitingSession = v.awaitingSession
    /\ xrSessions = v.xrSessions
    /\ xrEnding = v.xrEnding
    /\ nextSession = v.nextSession
    /\ vrOp = v.vrOp

\* new jgVr(runtime), on a host with no session and no request.
jgVr ==
    [open |-> FALSE, session |-> Null,
     awaitingCompatible |-> 0, awaitingSession |-> 0,
     xrSessions |-> {}, xrEnding |-> {}, nextSession |-> 1,
     vrOp |-> "constructor"]

\* _disposeImmersive(): the stored session is dropped.
_disposeImmersive(v) == [v EXCEPT !.session = Null]

\* _createImmersive() up to its first await.  usable: navigator.xr, the GL
\* context and the renderer all exist; without one of them it returns.
_createImmersive(v, usable) ==
    IF ~usable THEN v
    ELSE [v EXCEPT !.awaitingCompatible = @ + 1]

\* await gl.makeXRCompatible() resolves: the call goes on to
\* navigator.xr.requestSession() and suspends there.
makeXRCompatibleResolved(v) ==
    [v EXCEPT !.awaitingCompatible = @ - 1, !.awaitingSession = @ + 1]

\* await gl.makeXRCompatible() rejects: the call ends.
makeXRCompatibleRejected(v) == [v EXCEPT !.awaitingCompatible = @ - 1]

\* await navigator.xr.requestSession() resolves with a new session: the rest
\* of _createImmersive stores it and marks the adapter open.
requestSessionResolved(v) ==
    [v EXCEPT !.awaitingSession = @ - 1,
              !.xrSessions = @ \cup {v.nextSession},
              !.nextSession = @ + 1,
              !.session = v.nextSession,
              !.open = TRUE]

\* await navigator.xr.requestSession() rejects: the call ends.
requestSessionRejected(v) == [v EXCEPT !.awaitingSession = @ - 1]

\* session.end() on the host: the session starts shutting down.
end(v, sid) ==
    IF sid \in v.xrSessions THEN [v EXCEPT !.xrEnding = @ \cup {sid}] ELSE v

\* The 'end' event of session sid and the listener _createImmersive put on it.
onEnd(v, sid) ==
    _disposeImmersive([v EXCEPT !.xrSessions = @ \ {sid},
                                !.xrEnding = @ \ {sid},
                                !.open = FALSE])

createSession(v, usable) ==
    IF v.open THEN v
    ELSE IF v.session # Null THEN v
    ELSE _createImmersive(v, usable)

closeSession(v) ==
    LET v1 == [v EXCEPT !.open = FALSE] IN
    IF v1.session = Null THEN v1 ELSE end(v1, v1.session)

----------------------------------------------------------------------------
(* Actions: one per call of the public interface and per host callback *)

Init == Is(constructor) /\ IsVr(jgVr)

\* The host has ids left for what the handler allocates.
Fits(s) == s.nextId <= MaxId + 1

Start ==
    LET s == Called(start(Cur), "start", 0) IN
    Fits(s) /\ Become(s)

Stop ==
    LET s == Called(stop(Cur), "stop", 0) IN
    Fits(s) /\ Become(s)

SetFramerate ==
    \E fps \in Rates :
        LET s == Called(setFramerate(Cur, fps), "setFramerate", fps) IN
        Fits(s) /\ Become(s)

SetInterpolation ==
    \E flag \in BOOLEAN :
        LET s == Called(setInterpolation(Cur, flag), "setInterpolation",
                        IF flag THEN 1 ELSE 0) IN
        Fits(s) /\ Become(s)

\* The host runs the callback of an active interval timer.
IntervalFires ==
    \E t \in timers :
        Become([Cur EXCEPT !.lastCall = [callback |-> t.callback,
                                         kind |-> "timer", ref |-> t.id],
                           !.lastOp = Op("interval", 0)])

\* The host delivers a frame to a pending request: it takes the request off
\* its list and runs the wrapper's handle.
FrameFires ==
    \E r \in frameRequests :
        LET s0 == [Cur EXCEPT !.frameRequests = @ \ {r}]
            s  == [handle(s0, r.wrapper, Return) EXCEPT !.lastOp = Op("frame", 0)]
        IN  Fits(s) /\ Become(s)

Next ==
    \/ Start
    \/ Stop
    \/ SetFramerate
    \/ SetInterpolation
    \/ IntervalFires
    \/ FrameFires

Spec == Init /\ [][Next]_vars

\* The handler that ran last, when its callback did c.
Within(outer, c) ==
    Op(CASE outer = "frame" /\ c.name = "throw" -> "frame>throw"
         [] outer = "frame" /\ c.name = "stop" -> "frame>stop"
         [] outer = "frame" /\ c.name = "setFramerate" -> "frame>setFramerate"
         [] outer = "frame" /\ c.name = "setInterpolation" -> "frame>setInterpolation"
         [] outer = "interval" /\ c.name = "stop" -> "interval>stop"
         [] outer = "interval" /\ c.name = "setFramerate" -> "interval>setFramerate"
         [] outer = "interval" /\ c.name = "setInterpolation" -> "interval>setInterpolation"
         [] OTHER -> outer,
       c.arg)

\* A frame is delivered and the callback throws.
FrameFiresThrowing ==
    \E r \in frameRequests :
        LET s0 == [Cur EXCEPT !.frameRequests = @ \ {r}]
            s  == [handle(s0, r.wrapper, Throw) EXCEPT !.lastOp = Within("frame", Throw)]
        IN  Fits(s) /\ Become(s)

\* A frame is delivered and the callback calls back into the FrameLoop.
FrameFiresCalling ==
    \E r \in frameRequests, c \in Reentrant :
        LET s0 == [Cur EXCEPT !.frameRequests = @ \ {r}]
            s  == [handle(s0, r.wrapper, c) EXCEPT !.lastOp = Within("frame", c)]
        IN  Fits(s) /\ Become(s)

\* An interval timer fires and the callback calls back into the FrameLoop.
IntervalFiresCalling ==
    \E t \in timers, c \in Reentrant :
        LET s0 == [Cur EXCEPT !.lastCall = [callback |-> t.callback,
                                            kind |-> "timer", ref |-> t.id]]
            s  == [callback(s0, c) EXCEPT !.lastOp = Within("interval", c)]
        IN  Fits(s) /\ Become(s)

\* The scheduler driven by its callbacks: start() and stop() come from
\* outside, reconfiguration comes from inside the callbacks.
NextCallbacks ==
    \/ Start
    \/ Stop
    \/ IntervalFires
    \/ FrameFires
    \/ FrameFiresThrowing
    \/ FrameFiresCalling
    \/ IntervalFiresCalling

SpecCallbacks == Init /\ [][NextCallbacks]_vars

\* start() on a stopped FrameLoop only, and no stop(): what follows the one
\* start() is reconfiguration while running.
StartStopped == ~running /\ Start

NextRestart ==
    \/ StartStopped
    \/ SetFramerate
    \/ SetInterpolation
    \/ IntervalFires
    \/ FrameFires

SpecRestart == Init /\ [][NextRestart]_vars

----------------------------------------------------------------------------
(* Sources that are live: created and not cancelled *)

\* Active interval timers that invoke cb.
LiveTimers(cb) == {t \in timers : t.callback = cb}

\* Wrappers that invoke cb and have a frame request pending.
LiveLoops(cb) ==
    {w \in 1..Len(wrappers) :
        /\ wrappers[w].callback = cb
        /\ \E r \in frameRequests : r.wrapper = w}

LiveCount(cb) == Cardinality(LiveTimers(cb)) + Cardinality(LiveLoops(cb))

\* In the log, every source was cancelled before the next source for the
\* same callback was created.
CancelledBeforeReplaced ==
    \A i, j \in 1..Len(log) :
        (/\ i < j
         /\ log[i].ev = "create"
         /\ log[j].ev = "create"
         /\ log[i].callback = log[j].callback)
        => \E k \in (i + 1)..(j - 1) :
              /\ log[k].ev = "cancel"
              /\ log[k].kind = log[i].kind
              /\ log[k].ref = log[i].ref

Created(cb) == {i \in 1..Len(log) : log[i].ev = "create" /\ log[i].callback = cb}

----------------------------------------------------------------------------
(* Claims *)

\* C1: after one start() on a stopped FrameLoop, whatever setFramerate and
\* setInterpolation calls follow while running, at most one step source and
\* at most one interpolation loop are live, and every source a restart
\* replaced was cancelled before its replacement was created.
C1_NoDoubleSubscription ==
    /\ LiveCount(stepCallback) <= 1
    /\ LiveCount(interpolationCallback) <= 1
    /\ CancelledBeforeReplaced

\* C1 witness: restarts have replaced the step source twice and an
\* interpolation loop is live beside the step source.
C1_Witness ==
    /\ running
    /\ lastOp.name \in {"setFramerate", "setInterpolation"}
    /\ Cardinality(Created(stepCallback)) >= 3
    /\ LiveCount(stepCallback) = 1
    /\ LiveCount(interpolationCallback) = 1

\* C2: in every state reachable by start(), stop(), setFramerate() and
\* setInterpolation() in any order, at most one step source is live.
C2_AtMostOneStepSource == LiveCount(stepCallback) <= 1

\* C3: an interpolation loop is live if and only if running is true,
\* framerate > 0 and interpolation is enabled.
C3_InterpolationIff ==
    (LiveCount(interpolationCallback) > 0)
        <=> (running /\ framerate > 0 /\ interpolation)

\* The events the last handler appended to the log.
NewEvents == SubSeq(log', Len(log) + 1, Len(log'))

\* x is the number a / b (b > 0), whatever fraction represents it.
IsQuotient(x, a, b) == x[2] > 0 /\ x[1] * b = a * x[2]

Reconfigured == lastOp.name \in {"setFramerate", "setInterpolation"}

\* C4: while framerate is 0 no operation creates an interpolation source,
\* and a restart into framerate 0 leaves no interpolation source live.
C4_InterpolationGating ==
    [][/\ framerate' = 0
          => \A i \in 1..Len(NewEvents) :
                ~(NewEvents[i].ev = "create"
                    /\ NewEvents[i].callback = interpolationCallback)
       /\ (running /\ Reconfigured' /\ framerate' = 0)
          => LiveCount(interpolationCallback)' = 0]_vars

\* C5: start() on a stopped FrameLoop sets running and creates exactly one
\* step source, a display-sync loop at rate 0 and a timer of interval
\* 1000/rate at rate > 0, plus one interpolation loop exactly when rate > 0
\* and interpolation is on; a new FrameLoop is stopped, at rate 60, with
\* interpolation off.
C5_ModeTable ==
    [][/\ lastOp.name = "constructor"
          => (~running /\ framerate = 60 /\ ~interpolation /\ log = << >>)
       /\ (~running /\ lastOp'.name = "start")
          => /\ running'
             /\ framerate' = framerate /\ interpolation' = interpolation
             /\ IF framerate = 0
                THEN /\ Len(NewEvents) = 1
                     /\ NewEvents[1] = Event("create", "raf", stepCallback,
                                             _stepAnimation')
                     /\ _stepAnimation' \in LiveLoops(stepCallback)'
                     /\ timers' = timers
                ELSE /\ \E t \in timers' \ timers :
                         /\ timers' = timers \cup {t}
                         /\ t.id = _stepInterval'
                         /\ t.callback = stepCallback
                         /\ IsQuotient(t.delay, 1000, framerate)
                         /\ NewEvents[Len(NewEvents)]
                              = Event("create", "timer", stepCallback, t.id)
                     /\ IF interpolation
                        THEN /\ Len(NewEvents) = 2
                             /\ NewEvents[1] = Event("create", "raf",
                                                     interpolationCallback,
                                                     _interpolationAnimation')
                             /\ _interpolationAnimation'
                                  \in LiveLoops(interpolationCallback)'
                        ELSE /\ Len(NewEvents) = 1
                             /\ frameRequests' = frameRequests]_vars

\* C5 witness: the first start(), at rate 30 with interpolation on, has made
\* a timer and an interpolation loop.
C5_Witness ==
    /\ lastOp.name = "start"
    /\ framerate = 30 /\ interpolation
    /\ Len(log) = 2
    /\ LiveCount(stepCallback) = 1 /\ LiveCount(interpolationCallback) = 1

\* C6: after stop() running is false, no step or interpolation source is
\* live and the three handle fields are none.
C6_StopPostcondition ==
    lastOp.name = "stop"
    => /\ ~running
       /\ LiveCount(stepCallback) = 0
       /\ LiveCount(interpolationCallback) = 0
       /\ _stepInterval = Null
       /\ _interpolationAnimation = Null
       /\ _stepAnimation = Null

\* C7: from every reachable state stop(); stop() leaves the state a single
\* stop() leaves, and stop() on a FrameLoop never started changes nothing.
C7_StopIdempotent ==
    /\ stop(stop(Cur)) = stop(Cur)
    /\ log = << >> => stop(Cur) = Cur

\* C7 witness: stop() has cancelled a running timer, whose stale id it
\* keeps, and a further stop() changes nothing.
C7_Witness ==
    /\ lastOp.name = "stop"
    /\ _stepInterval # Null
    /\ log # << >> /\ log[Len(log)].ev = "cancel"
    /\ stop(Cur) = Cur

\* C8: after setFramerate or setInterpolation on a running FrameLoop,
\* running is true and the live sources are exactly those of the mode table
\* for the new configuration.
C8_ReconfigureImmediate ==
    (running /\ Reconfigured)
    => /\ Cardinality(LiveLoops(stepCallback)) = (IF framerate = 0 THEN 1 ELSE 0)
       /\ Cardinality(LiveTimers(stepCallback)) = (IF framerate = 0 THEN 0 ELSE 1)
       /\ \A t \in LiveTimers(stepCallback) : IsQuotient(t.delay, 1000, framerate)
       /\ LiveCount(interpolationCallback)
            = (IF framerate > 0 /\ interpolation THEN 1 ELSE 0)

\* C9: on a stopped FrameLoop setFramerate and setInterpolation only store
\* the configuration (setFramerate also the step time): running stays
\* false, no source is created, no handle field changes; the next start()
\* schedules with the stored rate.
C9_ReconfigureStopped ==
    [][/\ (~running /\ Reconfigured')
          => /\ ~running'
             /\ UNCHANGED <<timers, frameRequests, wrappers, nextId, log,
                            _stepInterval, _interpolationAnimation,
                            _stepAnimation, stepCallback, interpolationCallback>>
             /\ IF lastOp'.name = "setFramerate"
                THEN /\ framerate' = lastOp'.arg
                     /\ interpolation' = interpolation
                     /\ IsQuotient(currentStepTime', 1000,
                                   IF framerate' = 0 THEN 60 ELSE framerate')
                ELSE /\ interpolation' = (lastOp'.arg = 1)
                     /\ framerate' = framerate
                     /\ currentStepTime' = currentStepTime
       /\ (~running /\ lastOp.name = "setFramerate" /\ lastOp'.name = "start")
          => IF lastOp.arg = 0
             THEN _stepAnimation' \in LiveLoops(stepCallback)'
             ELSE \E t \in timers' \ timers :
                     IsQuotient(t.delay, 1000, lastOp.arg)]_vars

\* C9 witness: setFramerate(30) has run on a FrameLoop that was stopped
\* after running: the rate and step time are stored and nothing is live.
C9_Witness ==
    /\ lastOp = Op("setFramerate", 30)
    /\ ~running
    /\ framerate = 30
    /\ currentStepTime = <<100, 3>>
    /\ log # << >>
    /\ timers = {} /\ frameRequests = {}

C11_CallbackIdentity ==
    /\ [](/\ stepCallback = constructor.stepCallback
          /\ interpolationCallback = constructor.interpolationCallback
          /\ stepCallback # interpolationCallback
          /\ \A t \in timers : t.callback = stepCallback
          /\ _stepAnimation # Null
                => wrappers[_stepAnimation].callback = stepCallback
          /\ _interpolationAnimation # Null
                => wrappers[_interpolationAnimation].callback
                     = interpolationCallback
          /\ \A i \in 1..Len(log) :
                /\ log[i].callback \in {stepCallback, interpolationCallback}
                /\ log[i].kind = "timer" => log[i].callback = stepCallback)
    /\ [][/\ stepCallback' = stepCallback
           /\ interpolationCallback' = interpolationCallback
           /\ \A w \in 1..Len(wrappers) :
                 wrappers'[w].callback = wrappers[w].callback
           /\ (lastOp'.name = "start" /\ framerate = 0)
                 => NewEvents = <<Event("create", "raf", stepCallback,
                                        _stepAnimation')>>]_vars

\* C11 witness: after a restart the second display-sync step loop has
\* delivered a frame to stepCallback.
C11_Witness ==
    /\ lastOp.name = "frame"
    /\ lastCall = [callback |-> stepCallback, kind |-> "raf", ref |-> _stepAnimation]
    /\ Cardinality(Created(stepCallback)) >= 2
    /\ running

\* cancel() of wrapper w has been called.
CancelCalled(w) ==
    \E i \in 1..Len(log) :
        /\ log[i].ev \in {"cancel", "cancel-noop"}
        /\ log[i].kind = "raf"
        /\ log[i].ref = w

Pending(w) == {r \in frameRequests : r.wrapper = w}

FrameHandlers ==
    {"frame", "frame>throw", "frame>stop", "frame>setFramerate",
     "frame>setInterpolation"}

\* C12: once cancel() of a wrapper has been called no frame request of that
\* wrapper is pending and its handle never runs again, whether cancel() was
\* called between frames or by the wrapped callback itself.
C12_CancelGuarantee ==
    /\ [](\A w \in 1..Len(wrappers) : CancelCalled(w) => Pending(w) = {})
    /\ [][\A w \in 1..Len(wrappers) :
             CancelCalled(w)
             => ~(lastOp'.name \in FrameHandlers
                    /\ lastCall'.kind = "raf" /\ lastCall'.ref = w)]_vars

\* C12 witness: the callback of a display-sync step loop has called stop()
\* during its own frame, which cancelled the loop it ran on.
C12_Witness ==
    /\ lastOp.name = "frame>stop"
    /\ lastCall.kind = "raf"
    /\ lastCall.callback = stepCallback
    /\ CancelCalled(lastCall.ref)
    /\ Pending(lastCall.ref) = {}

\* C13: cancelling a display-sync handle twice, or clearing a timer id
\* twice (a stale or absent id included), leaves the pending work that
\* cancelling once leaves, and a cancellation removes nothing but the
\* handle's own source.
C13_IdempotentCancellation ==
    /\ \A w \in 1..Len(wrappers) :
          LET once  == cancel(Cur, w)
              twice == cancel(once, w)
          IN  /\ twice.frameRequests = once.frameRequests
              /\ twice.timers = once.timers
              /\ once.timers = timers
              /\ frameRequests \ once.frameRequests \subseteq Pending(w)
    /\ \A id \in {Null, _stepInterval} \cup {t.id : t \in timers} :
          LET once  == clearInterval(Cur, id)
              twice == clearInterval(once, id)
          IN  /\ twice = once
              /\ once.frameRequests = frameRequests
              /\ timers \ once.timers \subseteq {t \in timers : t.id = id}

\* C13 witness: _stepInterval holds the stale id of a cleared timer, one
\* wrapper has been cancelled and a newer display-sync step loop is live.
C13_Witness ==
    /\ _stepInterval # Null
    /\ \A t \in timers : t.id # _stepInterval
    /\ \E w \in 1..Len(wrappers) : CancelCalled(w) /\ w < _stepAnimation
    /\ _stepAnimation \in LiveLoops(stepCallback)

\* Live sources that no handle field refers to.
OrphanTimers == {t \in timers : t.id # _stepInterval}

OrphanLoops ==
    {w \in 1..Len(wrappers) :
        /\ Pending(w) # {}
        /\ w \notin {_stepAnimation, _interpolationAnimation}}

\* C14: start() on a running FrameLoop creates new sources and cancels
\* none; the sources that were live stay live with no handle field
\* referring to them, and no later operation cancels such a source.
C14_StartWhileRunningLeaks ==
    [][/\ (running /\ lastOp'.name = "start")
          => /\ NewEvents # << >>
             /\ \A i \in 1..Len(NewEvents) : NewEvents[i].ev = "create"
             /\ timers \subseteq OrphanTimers'
             /\ \A w \in 1..Len(wrappers) :
                   Pending(w) # {} => w \in OrphanLoops'
       /\ OrphanTimers \subseteq OrphanTimers'
       /\ OrphanLoops \subseteq OrphanLoops']_vars

\* C14 witness: after start(); start(); stop() the FrameLoop is stopped and
\* a step source is still live.
C14_Witness ==
    /\ lastOp.name = "stop"
    /\ ~running
    /\ LiveCount(stepCallback) > 0
    /\ OrphanTimers \cup OrphanLoops # {}

\* C15: a wrapper on which cancel() has not been called has exactly one
\* frame request pending, whose id is the id the wrapper stores; a delivered
\* frame takes that request, invokes the wrapper's callback and leaves one
\* new request in its place.
C15_Periodicity ==
    /\ [](\A w \in 1..Len(wrappers) :
            ~CancelCalled(w)
            => /\ Cardinality(Pending(w)) = 1
               /\ \A r \in Pending(w) : r.id = wrappers[w].id)
    /\ [][lastOp'.name \in {"frame", "frame>throw"}
           => \E w \in 1..Len(wrappers) :
                 /\ lastCall' = [callback |-> wrappers[w].callback,
                                 kind |-> "raf", ref |-> w]
                 /\ Cardinality(Pending(w)) = 1
                 /\ Cardinality(Pending(w)') = 1
                 /\ Pending(w)' \cap Pending(w) = {}
                 /\ frameRequests' \ Pending(w)' = frameRequests \ Pending(w)
                 /\ wrappers'[w].id = nextId
                 /\ nextId' = nextId + 1]_vars

\* C15 witness: a display-sync step loop has just been delivered a frame and
\* the one request pending for it is the request its handle made.
C15_Witness ==
    /\ lastOp.name = "frame"
    /\ lastCall.callback = stepCallback
    /\ \E w \in LiveLoops(stepCallback) :
          /\ lastCall.ref = w
          /\ ~CancelCalled(w)
          /\ Cardinality(Pending(w)) = 1
          /\ \A r \in Pending(w) : r.id = wrappers[w].id /\ r.id = nextId - 1

\* C16: when the callback throws in a frame of a display-sync source, the
\* FrameLoop's fields are unchanged, the frame that failed is gone, the
\* wrapper's next request is pending under the id it stores, and a stop()
\* after it cancels the source.
C16_CallbackFailure ==
    [][lastOp'.name = "frame>throw"
       => \E w \in 1..Len(wrappers) :
          /\ lastCall' = [callback |-> wrappers[w].callback,
                          kind |-> "raf", ref |-> w]
          /\ UNCHANGED <<running, framerate, interpolation, currentStepTime,
                         stepCallback, interpolationCallback, _stepInterval,
                         _interpolationAnimation, _stepAnimation, timers, log>>
          /\ Cardinality(Pending(w)') = 1
          /\ \A r \in Pending(w)' : r.id = wrappers'[w].id /\ r \notin frameRequests
          /\ frameRequests' \ Pending(w)' = frameRequests \ Pending(w)
          /\ w \in {_stepAnimation', _interpolationAnimation'}
                => {r \in stop(Cur)'.frameRequests : r.wrapper = w} = {}]_vars

\* C16 witness: stepCallback has thrown in a frame of the running
\* display-sync step loop, whose next request is pending.
C16_Witness ==
    /\ lastOp.name = "frame>throw"
    /\ running
    /\ lastCall = [callback |-> stepCallback, kind |-> "raf", ref |-> _stepAnimation]
    /\ Cardinality(Pending(_stepAnimation)) = 1

\* C17: setFramerate never changes the interpolation flag, setInterpolation
\* never changes the framerate, start(), stop() and the callbacks change
\* neither; so setFramerate(r), r > 0, on a FrameLoop running at rate 0 with
\* the flag set leaves an interpolation loop live.
C17_ConfigurationIndependent ==
    [][/\ lastOp'.name = "setFramerate"
          => (interpolation' = interpolation /\ framerate' = lastOp'.arg)
       /\ lastOp'.name = "setInterpolation"
          => (framerate' = framerate /\ interpolation' = (lastOp'.arg = 1))
       /\ lastOp'.name \in {"start", "stop", "interval", "frame"}
          => (framerate' = framerate /\ interpolation' = interpolation)
       /\ (/\ running /\ framerate = 0 /\ interpolation
           /\ lastOp'.name = "setFramerate" /\ lastOp'.arg > 0)
          => /\ _interpolationAnimation' \in LiveLoops(interpolationCallback)'
             /\ _interpolationAnimation' > Len(wrappers)]_vars

\* C17 witness: setFramerate(30) has just run on a FrameLoop that was running
\* at rate 0 with interpolation set, and its interpolation loop is live.
C17_Witness ==
    /\ lastOp = Op("setFramerate", 30)
    /\ running /\ interpolation
    /\ _interpolationAnimation \in LiveLoops(interpolationCallback)
    /\ \E i \in 1..Len(log) :
          /\ log[i] = Event("cancel", "raf", stepCallback, log[i].ref)
          /\ i + 1 \in 1..Len(log)
          /\ log[i + 1] = Event("create", "raf", interpolationCallback,
                                _interpolationAnimation)

ReentrantHandlers ==
    {"frame>stop", "frame>setFramerate", "frame>setInterpolation",
     "interval>stop", "interval>setFramerate", "interval>setInterpolation"}

\* The source whose callback the last handler invoked is live.
ExecutingSourceLive ==
    IF lastCall.kind = "timer"
    THEN \E t \in timers : t.id = lastCall.ref
    ELSE Pending(lastCall.ref) # {}

\* C18: after a callback has called stop(), setFramerate() or
\* setInterpolation() from inside its own invocation, the source it ran on
\* delivers nothing further, and a running scheduler has exactly one live
\* step source.
C18_ReentrantSafe ==
    lastOp.name \in ReentrantHandlers
    => /\ ~ExecutingSourceLive
       /\ running => LiveCount(stepCallback) = 1

----------------------------------------------------------------------------
(* The jgVr adapter: its two blocks, the continuations of _createImmersive *)
(* and the host's 'end' event                                              *)

VrCalled(v, name) == [v EXCEPT !.vrOp = name]

\* The model has room for what the handler starts.
FitsVr(v) ==
    /\ v.awaitingCompatible + v.awaitingSession <= MaxInFlight
    /\ v.nextSession <= MaxSessions + 1

CreateSession ==
    \E usable \in BOOLEAN :
        LET v == VrCalled(createSession(CurVr, usable), "createSession") IN
        FitsVr(v) /\ BecomeVr(v)

CloseSession ==
    LET v == VrCalled(closeSession(CurVr), "closeSession") IN
    FitsVr(v) /\ BecomeVr(v)

MakeXRCompatibleResolves ==
    /\ awaitingCompatible > 0
    /\ BecomeVr(VrCalled(makeXRCompatibleResolved(CurVr), "compatible"))

MakeXRCompatibleRejects ==
    /\ awaitingCompatible > 0
    /\ BecomeVr(VrCalled(makeXRCompatibleRejected(CurVr), "incompatible"))

RequestSessionResolves ==
    /\ awaitingSession > 0
    /\ LET v == VrCalled(requestSessionResolved(CurVr), "granted") IN
       FitsVr(v) /\ BecomeVr(v)

RequestSessionRejects ==
    /\ awaitingSession > 0
    /\ BecomeVr(VrCalled(requestSessionRejected(CurVr), "denied"))

\* A session ends, after end() or because the user left it on the device.
SessionEnds ==
    \E sid \in xrSessions :
        BecomeVr(VrCalled(onEnd(CurVr, sid), "end"))

NextVr ==
    \/ CreateSession
    \/ CloseSession
    \/ MakeXRCompatibleResolves
    \/ MakeXRCompatibleRejects
    \/ RequestSessionResolves
    \/ RequestSessionRejects
    \/ SessionEnds

SpecVr == Init /\ [][NextVr]_vars

\* Sessions requested from the host and not yet ended: the requests still
\* pending and the sessions granted.
RequestedNotEnded == awaitingSession + Cardinality(xrSessions)

\* C19: under every interleaving of createSession(), closeSession(), the
\* completion of the session request and the 'end' event, at most one
\* session has been requested and not yet ended.
C19_SingleSessionGuard == RequestedNotEnded <= 1

====
